---------------------------- MODULE Spec2Model ----------------------------
(***************************************************************************)
(* Model of DicomFormat.Reader (imageio/plugins/dicom.py): the lazy        *)
(* resolution of one read request into (pixel buffer, meta data) pairs     *)
(* under the access modes 'i', 'I', 'v', 'V', the memoized series catalog, *)
(* and the one-shot recovery of JPEG-compressed files at open time.        *)
(***************************************************************************)
EXTENDS Integers, Sequences, FiniteSets

(***************************************************************************)
(* Bounds of the model.                                                    *)
(***************************************************************************)
MaxSlices == 2      \* most slices of a multi-frame (3-D) pixel buffer
MaxFiles == 3       \* most files of the directory that enter the catalog
MaxChanges == 1     \* most changes of the directory after a discovery
MaxCloses == 2      \* most calls of close

(***************************************************************************)
(* Values.  Python's None and every object are records carrying a "kind",  *)
(* so that any two values can be compared.                                 *)
(***************************************************************************)
None == [kind |-> "None"]
\* An integer as a value (a length, or the index argument of a call).
IntV(i) == [kind |-> "int", v |-> i]

\* request.mode[1]: the four modes the format registers, and '?', the
\* "any" mode a request may carry, which the reader does not recognize.
Modes == {"i", "I", "v", "V"}
AllModes == Modes \cup {"?"}

\* numpy shapes as far as the reader looks at them: ndim, and shape[0] of
\* a 3-D array.  n is 0 for a 2-D array, whose shape[0] is never read.
Shapes == {[ndim |-> 2, n |-> 0]} \cup {[ndim |-> 3, n |-> k] : k \in 1..MaxSlices}

\* Files: <<0, 0>> is the file of the request, <<0, 1>> its decompressed
\* sibling (fname1 + '.raw'), <<j, p>> the p-th file of the j-th series.
RequestFile == <<0, 0>>
RawFile == <<0, 1>>

\* dcm.get_numpy_array() and dcm._info / dcm.info of the dataset parsed
\* from file f.
Array(f, shape) == [kind |-> "array", file |-> f, ndim |-> shape.ndim, n |-> shape.n]
Info(f) == [kind |-> "info", file |-> f]
\* self._info = {} of a directory request.
EmptyInfo == [kind |-> "dict"]

\* numpy's a[i] along the first axis and list[i]: an index i of a sequence
\* of n elements is accepted when -n <= i < n, a negative i counting from
\* the end.
PyIndexOk(n, i) == -n <= i /\ i < n
PyIndex(n, i) == IF i < 0 THEN n + i ELSE i
ArraySlice(a, i) == [kind |-> "slice", file |-> a.file, idx |-> PyIndex(a.n, i)]

(***************************************************************************)
(* The series catalog, as the discovery routine returns it: an ordered     *)
(* collection of non-empty ordered collections of datasets.  A catalog is  *)
(* given by the sizes of its series and by the shape of the buffer of its  *)
(* first file (the only file whose shape the reader ever reads).           *)
(***************************************************************************)
RECURSIVE SumSizes(_)
SumSizes(s) == IF s = <<>> THEN 0 ELSE s[1] + SumSizes(Tail(s))

Catalog(sizes, first) == [kind |-> "catalog", sizes |-> sizes, first |-> first]
SeriesSizes ==
    {s \in UNION {[1..k -> 1..MaxFiles] : k \in 1..MaxFiles} :
        SumSizes(s) <= MaxFiles}
Catalogs ==
    {Catalog(<<>>, [ndim |-> 2, n |-> 0])} \cup
    {Catalog(s, sh) : s \in SeriesSizes, sh \in Shapes}

\* The buffer and the meta data of the p-th file of the j-th series.
ItemShape(cat, j, p) == IF j = 1 /\ p = 1 THEN cat.first ELSE [ndim |-> 2, n |-> 0]
ItemArray(cat, j, p) == Array(<<j, p>>, ItemShape(cat, j, p))
ItemInfo(cat, j, p) == Info(<<j, p>>)
\* series[j].get_numpy_array() and series[j].info: the volume of a series.
SeriesVolume(cat, j) == [kind |-> "volume", series |-> j, files |-> cat.sizes[j]]
SeriesInfo(cat, j) == [kind |-> "seriesinfo", series |-> j]

\* L of _get_data: the files of all series, concatenated in catalog order.
RECURSIVE FlattenFrom(_, _)
FlattenFrom(sizes, j) ==
    IF j > Len(sizes) THEN <<>>
    ELSE [p \in 1..sizes[j] |-> <<j, p>>] \o FlattenFrom(sizes, j + 1)
\* The list assigned per series instead of extended.
FlattenKeepsLastSeries(cat) ==
    IF cat.sizes = <<>> THEN <<>> ELSE FlattenFrom(cat.sizes, Len(cat.sizes))
Flatten(cat) == FlattenFrom(cat.sizes, 1)

VARIABLES
    phase,        \* "new", "open", "failed" (open raised) or "closed"
    source,       \* "file" or "dir": os.path.isdir(request.filename)
    mode,         \* request.mode[1]
    directory,    \* the catalog a discovery of the directory would return now
    changes,      \* number of changes of the directory so far
    _data,        \* self._data
    _info,        \* self._info
    _series,      \* self._series
    discoveries,  \* calls of _dicom.process_directory so far
    firstCatalog, \* the result of the first of them
    openLog,      \* the external calls _open made, with their answers
    closes,       \* calls of _close so far
    ret           \* the last call and its outcome

vars == <<phase, source, mode, directory, changes, _data, _info, _series,
          discoveries, firstCatalog, openLog, closes, ret>>

(***************************************************************************)
(* The reader's own fields, threaded through a handler as one record       *)
(* "self"; calls counts the discoveries the handler made.                  *)
(***************************************************************************)
Self == [data |-> _data, info |-> _info, series |-> _series, calls |-> 0]

\* The property self.series: discovery on first use, the cached catalog
\* afterwards.  dir is what process_directory returns at this moment.
SeriesNoMemo(self, dir) ==
    [self EXCEPT !.series = dir, !.calls = self.calls + 1]
series(self, dir) ==
    IF self.series = None
    THEN [self EXCEPT !.series = dir, !.calls = self.calls + 1]
    ELSE self

\* Outcomes of a handler: a value or an exception, with the fields left.
Return(self, value) == [kind |-> "ok", value |-> value, self |-> self]
Raise(self, exc) == [kind |-> exc, value |-> None, self |-> self]

\* The first lines of _get_length, _get_data and _get_meta_data: with no
\* data loaded, the first file of the first series becomes the data.
\* series[0][0] raises IndexError on an empty catalog.
\* A promotion that does not test whether data is loaded.
PromoteAlways(self, dir) ==
    LET s == series(self, dir) IN
    IF Len(s.series.sizes) = 0
    THEN Raise(s, "IndexError")
    ELSE Return([s EXCEPT !.info = ItemInfo(s.series, 1, 1),
                          !.data = ItemArray(s.series, 1, 1)], None)
Promote(self, dir) ==
    IF self.data = None
    THEN LET s == series(self, dir) IN
         IF Len(s.series.sizes) = 0
         THEN Raise(s, "IndexError")
         ELSE Return([s EXCEPT !.info = ItemInfo(s.series, 1, 1),
                               !.data = ItemArray(s.series, 1, 1)], None)
    ELSE Return(self, None)

\* nslices of _get_length, _get_data and _get_meta_data.
NslicesIgnoresNdim(data) == 1
nslices(data) == IF data.ndim = 3 THEN data.n ELSE 1


(***************************************************************************)
(* _get_length                                                             *)
(***************************************************************************)
\* The last branch taken for every mode that is not 'i', 'I' or 'v'.
LengthOfElseIsV(self, m, dir) ==
    LET n == nslices(self.data) IN
    IF m = "i" THEN Return(self, IntV(n))
    ELSE IF m = "I" THEN
        IF n > 1 THEN Return(self, IntV(n))
        ELSE LET s == series(self, dir) IN Return(s, IntV(SumSizes(s.series.sizes)))
    ELSE IF m = "v" THEN
        IF n > 1 THEN Return(self, IntV(1))
        ELSE LET s == series(self, dir) IN Return(s, IntV(Len(s.series.sizes)))
    ELSE LET s == series(self, dir) IN Return(s, IntV(Len(s.series.sizes)))
\* The 'I' branch taking the slice count of every loaded buffer.
LengthOfAnyStack(self, m, dir) ==
    LET n == nslices(self.data) IN
    IF m = "i" THEN Return(self, IntV(n))
    ELSE IF m = "I" THEN
        IF n >= 1 THEN Return(self, IntV(n))
        ELSE LET s == series(self, dir) IN Return(s, IntV(SumSizes(s.series.sizes)))
    ELSE IF m = "v" THEN
        IF n > 1 THEN Return(self, IntV(1))
        ELSE LET s == series(self, dir) IN Return(s, IntV(Len(s.series.sizes)))
    ELSE IF m = "V" THEN
        LET s == series(self, dir) IN Return(s, IntV(Len(s.series.sizes)))
    ELSE Raise(self, "RuntimeError")
\* A length whose 'i' branch reads the series before answering.
LengthOfSingleImageReadsSeries(self, m, dir) ==
    LET n == nslices(self.data) IN
    IF m = "i" THEN Return(series(self, dir), IntV(n))
    ELSE IF m = "I" THEN
        IF n > 1 THEN Return(self, IntV(n))
        ELSE LET s == series(self, dir) IN Return(s, IntV(SumSizes(s.series.sizes)))
    ELSE IF m = "v" THEN
        IF n > 1 THEN Return(self, IntV(1))
        ELSE LET s == series(self, dir) IN Return(s, IntV(Len(s.series.sizes)))
    ELSE IF m = "V" THEN
        LET s == series(self, dir) IN Return(s, IntV(Len(s.series.sizes)))
    ELSE Raise(self, "RuntimeError")
LengthOf(self, m, dir) ==
    LET n == nslices(self.data) IN
    IF m = "i" THEN Return(self, IntV(n))
    ELSE IF m = "I" THEN
        IF n > 1 THEN Return(self, IntV(n))
        ELSE LET s == series(self, dir) IN Return(s, IntV(SumSizes(s.series.sizes)))
    ELSE IF m = "v" THEN
        IF n > 1 THEN Return(self, IntV(1))
        ELSE LET s == series(self, dir) IN Return(s, IntV(Len(s.series.sizes)))
    ELSE IF m = "V" THEN
        LET s == series(self, dir) IN Return(s, IntV(Len(s.series.sizes)))
    ELSE Raise(self, "RuntimeError")

_get_length(self, m, dir) ==
    LET p == Promote(self, dir) IN
    IF p.kind # "ok" THEN p ELSE LengthOf(p.self, m, dir)

(***************************************************************************)
(* _get_data                                                               *)
(***************************************************************************)
Pair(buffer, meta) == [kind |-> "pair", buffer |-> buffer, meta |-> meta]

\* L[index].get_numpy_array(), L[index].info over the flattened catalog.
FlatItem(self, index) ==
    LET L == Flatten(self.series) IN
    IF PyIndexOk(Len(L), index)
    THEN LET f == L[PyIndex(Len(L), index) + 1] IN
         Return(self, Pair(ItemArray(self.series, f[1], f[2]),
                           ItemInfo(self.series, f[1], f[2])))
    ELSE Raise(self, "IndexError")

\* The series taken at 0 whatever the index.
SeriesItemFirst(self, index) ==
    IF Len(self.series.sizes) > 0
    THEN Return(self, Pair(SeriesVolume(self.series, 1), SeriesInfo(self.series, 1)))
    ELSE Raise(self, "IndexError")
\* self.series[index].get_numpy_array(), self.series[index].info
SeriesItem(self, index) ==
    LET k == Len(self.series.sizes) IN
    IF PyIndexOk(k, index)
    THEN Return(self, Pair(SeriesVolume(self.series, PyIndex(k, index) + 1),
                           SeriesInfo(self.series, PyIndex(k, index) + 1)))
    ELSE Raise(self, "IndexError")

DataOf(self, m, dir, index) ==
    LET n == nslices(self.data) IN
    IF m = "i" THEN
        IF n > 1 THEN
            IF PyIndexOk(n, index)
            THEN Return(self, Pair(ArraySlice(self.data, index), self.info))
            ELSE Raise(self, "IndexError")
        ELSE IF index = 0 THEN Return(self, Pair(self.data, self.info))
        ELSE Raise(self, "IndexError")
    ELSE IF m = "I" THEN
        IF index = 0 /\ n > 1
        THEN Return(self, Pair(ArraySlice(self.data, index), self.info))
        ELSE FlatItem(series(self, dir), index)
    ELSE IF m \in {"v", "V"} THEN
        IF index = 0 /\ n > 1
        THEN Return(self, Pair(self.data, self.info))
        ELSE SeriesItem(series(self, dir), index)
    ELSE Raise(self, "ValueError")

_get_data(self, m, dir, index) ==
    LET p == Promote(self, dir) IN
    IF p.kind # "ok" THEN p ELSE DataOf(p.self, m, dir, index)

(***************************************************************************)
(* _get_meta_data; index is IntV(i) or None.                               *)
(***************************************************************************)
MetaOfPair(r) == IF r.kind = "ok" THEN Return(r.self, r.value.meta) ELSE r

\* A meta data lookup that takes a missing index for index 0 and
\* dispatches on the mode.
MetaOfDefaultIndexZero(self, m, dir, index) ==
    LET n == nslices(self.data)
        ix == IF index = None THEN IntV(0) ELSE index IN
    IF m = "i" THEN Return(self, self.info)
    ELSE IF m = "I" THEN
        IF ix.v = 0 /\ n > 1
        THEN Return(self, self.info)
        ELSE MetaOfPair(FlatItem(series(self, dir), ix.v))
    ELSE IF m \in {"v", "V"} THEN
        IF ix.v = 0 /\ n > 1
        THEN Return(self, self.info)
        ELSE MetaOfPair(SeriesItem(series(self, dir), ix.v))
    ELSE Raise(self, "ValueError")
MetaOf(self, m, dir, index) ==
    LET n == nslices(self.data) IN
    IF index = None THEN Return(self, self.info)
    ELSE IF m = "i" THEN Return(self, self.info)
    ELSE IF m = "I" THEN
        IF index.v = 0 /\ n > 1
        THEN Return(self, self.info)
        ELSE MetaOfPair(FlatItem(series(self, dir), index.v))
    ELSE IF m \in {"v", "V"} THEN
        IF index.v = 0 /\ n > 1
        THEN Return(self, self.info)
        ELSE MetaOfPair(SeriesItem(series(self, dir), index.v))
    ELSE Raise(self, "ValueError")

\* The default of a call without index answered before the promotion.
GetMetaDataDefaultFirst(self, m, dir, index) ==
    IF index = None THEN Return(self, self.info)
    ELSE LET p == Promote(self, dir) IN
         IF p.kind # "ok" THEN p ELSE MetaOf(p.self, m, dir, index)
_get_meta_data(self, m, dir, index) ==
    LET p == Promote(self, dir) IN
    IF p.kind # "ok" THEN p ELSE MetaOf(p.self, m, dir, index)


(***************************************************************************)
(* _open.  The environment decides what the parser makes of the file of    *)
(* the request (parse1, shape1), whether a dcmdjpeg executable is found    *)
(* (exe), whether running it succeeds (invokeOk), and what the parser      *)
(* makes of the decompressed file (parse2, shape2).                        *)
(***************************************************************************)
\* What _dicom.SimpleDicomReader does: "ok", or the exception it raises:
\* CompressedDicom naming JPEG, CompressedDicom naming another codec, or
\* any other error.
ParseOutcomes == {"ok", "CompressedJPEG", "CompressedOther", "ParseError"}
\* The values of the progress argument: True, False, None, an instance of
\* BaseProgressIndicator, and anything else.
ProgressConfigs == {"True", "False", "None", "indicator", "invalid"}

\* An exception object: its type, the call that raised it and, for a
\* CompressedDicom, whether 'JPEG' is in its message.
Error(type, by, jpeg) == [kind |-> "error", type |-> type, by |-> by, jpeg |-> jpeg]
ParseFailure(outcome, by) ==
    IF outcome \in {"CompressedJPEG", "CompressedOther"}
    THEN Error("CompressedDicom", by, outcome = "CompressedJPEG")
    ELSE Error("Exception", by, FALSE)

\* The external calls _open makes, in order, with what each answered.
Call(name, arg, out) == [call |-> name, arg |-> arg, out |-> out]
Parse(f, outcome) == Call("SimpleDicomReader", <<f>>, outcome)
Locate(exe) == Call("get_dcmdjpeg_exe", <<>>, IF exe THEN "found" ELSE "none")
Invoke(ok) == Call("check_call", <<RequestFile, RawFile>>,
                   IF ok THEN "ok" ELSE "CalledProcessError")

\* The reader's fields after the body of _open, with the log of its
\* external calls; kind is "ok" or "raise", value the exception raised.
Opened(data, info, log) ==
    [kind |-> "ok", value |-> None, data |-> data, info |-> info, log |-> log]
OpenFailed(err, log) ==
    [kind |-> "raise", value |-> err, data |-> None, info |-> None, log |-> log]

\* The exception raised when check_call fails in the handler of err.
ToolFailureRaisesToolError(err) == Error("CalledProcessError", "check_call", FALSE)
ToolFailure(err) == err

\* The except branch of _open: err is the CompressedDicom just caught,
\* log the calls made so far.
RecoverFromOriginal(err, log, exe, invokeOk, parse2, shape2) ==
    IF err.jpeg THEN
        IF ~exe THEN OpenFailed(err, log \o <<Locate(exe)>>)
        ELSE IF ~invokeOk
        THEN OpenFailed(ToolFailure(err), log \o <<Locate(exe), Invoke(invokeOk)>>)
        ELSE LET log2 == log \o <<Locate(exe), Invoke(invokeOk),
                                  Parse(RequestFile, parse2)>> IN
             IF parse2 = "ok"
             THEN Opened(Array(RequestFile, shape2), Info(RequestFile), log2)
             ELSE OpenFailed(ParseFailure(parse2, "parse2"), log2)
    ELSE OpenFailed(err, log)
\* A recovery that handles a failure of the re-parse like the first one.
RecoverAgain(err, log, exe, invokeOk, parse2, shape2) ==
    IF err.jpeg THEN
        IF ~exe THEN OpenFailed(err, log \o <<Locate(exe)>>)
        ELSE IF ~invokeOk
        THEN OpenFailed(ToolFailure(err), log \o <<Locate(exe), Invoke(invokeOk)>>)
        ELSE LET log2 == log \o <<Locate(exe), Invoke(invokeOk),
                                  Parse(RawFile, parse2)>> IN
             IF parse2 = "ok"
             THEN Opened(Array(RawFile, shape2), Info(RawFile), log2)
             ELSE IF parse2 = "CompressedJPEG"
             THEN OpenFailed(ParseFailure(parse2, "parse2"),
                             log2 \o <<Locate(exe), Invoke(invokeOk),
                                       Parse(RawFile, parse2)>>)
             ELSE OpenFailed(ParseFailure(parse2, "parse2"), log2)
    ELSE OpenFailed(err, log)
Recover(err, log, exe, invokeOk, parse2, shape2) ==
    IF err.jpeg THEN
        IF ~exe THEN OpenFailed(err, log \o <<Locate(exe)>>)
        ELSE IF ~invokeOk
        THEN OpenFailed(ToolFailure(err), log \o <<Locate(exe), Invoke(invokeOk)>>)
        ELSE LET log2 == log \o <<Locate(exe), Invoke(invokeOk),
                                  Parse(RawFile, parse2)>> IN
             IF parse2 = "ok"
             THEN Opened(Array(RawFile, shape2), Info(RawFile), log2)
             ELSE OpenFailed(ParseFailure(parse2, "parse2"), log2)
    ELSE OpenFailed(err, log)

\* The progress branch at the end of _open.
ProgressStep(o, progress) ==
    IF progress = "invalid"
    THEN [o EXCEPT !.kind = "raise", !.value = Error("ValueError", "progress", FALSE)]
    ELSE o

\* The else branch of _open: the request is a file, read now.
OpenFile(parse1, shape1, exe, invokeOk, parse2, shape2, progress) ==
    LET log == <<Parse(RequestFile, parse1)>> IN
    IF parse1 = "ok"
    THEN ProgressStep(Opened(Array(RequestFile, shape1), Info(RequestFile),
                             log), progress)
    ELSE LET err == ParseFailure(parse1, "parse1") IN
         IF err.type = "CompressedDicom"
         THEN LET r == Recover(err, log, exe, invokeOk, parse2, shape2) IN
              IF r.kind = "ok" THEN ProgressStep(r, progress) ELSE r
         ELSE OpenFailed(err, log)

\* _open without the os.path.isdir test: every request is read as a file.
OpenIgnoresIsdir(src, parse1, shape1, exe, invokeOk, parse2, shape2, progress) ==
    OpenFile(parse1, shape1, exe, invokeOk, parse2, shape2, progress)
_open(src, parse1, shape1, exe, invokeOk, parse2, shape2, progress) ==
    IF src = "dir"
    THEN ProgressStep(Opened(None, EmptyInfo, <<>>), progress)
    ELSE OpenFile(parse1, shape1, exe, invokeOk, parse2, shape2, progress)

(***************************************************************************)
(* The state machine: one request, opened once, queried, closed.           *)
(***************************************************************************)
\* The index arguments tried: every index of the longest flattened
\* catalog, one beyond it, and two negative ones.
Indices == (0 - 2)..(MaxFiles + 1)

\* ret: the call (op, index), its outcome (kind is "ok" or the exception
\* raised, value the value returned or the exception object of open).
Outcome(op, index, kind, value) ==
    [op |-> op, index |-> index, kind |-> kind, value |-> value]

Init ==
    /\ phase = "new"
    /\ source \in {"file", "dir"}
    /\ mode \in AllModes
    /\ directory \in Catalogs
    /\ changes = 0
    /\ _data = None
    /\ _info = None
    /\ _series = None
    /\ discoveries = 0
    /\ firstCatalog = None
    /\ openLog = <<>>
    /\ closes = 0
    /\ ret = Outcome("none", None, "ok", None)

Open ==
    /\ phase = "new"
    /\ \E parse1 \in ParseOutcomes, shape1 \in Shapes, exe \in BOOLEAN,
          invokeOk \in BOOLEAN, parse2 \in ParseOutcomes, shape2 \in Shapes,
          progress \in ProgressConfigs :
        LET o == _open(source, parse1, shape1, exe, invokeOk, parse2, shape2,
                       progress) IN
        /\ phase' = IF o.kind = "ok" THEN "open" ELSE "failed"
        /\ _data' = o.data
        /\ _info' = o.info
        /\ _series' = None
        /\ openLog' = o.log
        /\ ret' = Outcome("open", None, o.kind, o.value)
    /\ UNCHANGED <<source, mode, directory, changes, discoveries, firstCatalog,
                   closes>>

\* The effect of a query handler that ended with outcome r.
Apply(r, op, index) ==
    /\ _data' = r.self.data
    /\ _info' = r.self.info
    /\ _series' = r.self.series
    /\ discoveries' = discoveries + r.self.calls
    /\ firstCatalog' = IF discoveries = 0 /\ r.self.calls > 0
                       THEN directory ELSE firstCatalog
    /\ ret' = Outcome(op, index, r.kind, r.value)
    /\ UNCHANGED <<phase, source, mode, directory, changes, openLog, closes>>

Length ==
    /\ phase = "open"
    /\ Apply(_get_length(Self, mode, directory), "length", None)

Data ==
    /\ phase = "open"
    /\ \E i \in Indices :
        Apply(_get_data(Self, mode, directory, i), "data", IntV(i))

Meta ==
    /\ phase = "open"
    /\ \E index \in {None} \cup {IntV(i) : i \in Indices} :
        Apply(_get_meta_data(Self, mode, directory, index), "meta", index)

\* A caller reads the property series.  The property makes no test of
\* the reader being open: read after close it runs the discovery again.
Series ==
    /\ phase \in {"open", "closed"}
    /\ LET s == series(Self, directory) IN
        Apply(Return(s, s.series), "series", None)

\* _close without its last assignment.
CloseKeepsSeries ==
    /\ phase \in {"open", "closed"}
    /\ closes < MaxCloses
    /\ phase' = "closed"
    /\ _info' = None
    /\ _data' = None
    /\ closes' = closes + 1
    /\ ret' = Outcome("close", None, "ok", None)
    /\ UNCHANGED <<source, mode, directory, changes, discoveries, firstCatalog,
                   openLog, _series>>
\* _close, on an open reader or on one closed before.
Close ==
    /\ phase \in {"open", "closed"}
    /\ closes < MaxCloses
    /\ phase' = "closed"
    /\ _info' = None
    /\ _data' = None
    /\ _series' = None
    /\ closes' = closes + 1
    /\ ret' = Outcome("close", None, "ok", None)
    /\ UNCHANGED <<source, mode, directory, changes, discoveries, firstCatalog,
                   openLog>>

\* The environment changes the directory after the catalog was discovered:
\* a file is added as a new series, or the last file is removed.  A later
\* discovery would return another catalog.  ret is forgotten, so that it
\* always is the outcome of a call made on the directory as it is now.
AddFile(d) == Catalog(Append(d.sizes, 1), d.first)
RemoveFile(d) ==
    LET k == Len(d.sizes) IN
    IF d.sizes[k] > 1
    THEN Catalog([d.sizes EXCEPT ![k] = d.sizes[k] - 1], d.first)
    ELSE IF k > 1 THEN Catalog(SubSeq(d.sizes, 1, k - 1), d.first)
    ELSE Catalog(<<>>, [ndim |-> 2, n |-> 0])
ChangedDirectories(d) ==
    (IF SumSizes(d.sizes) < MaxFiles THEN {AddFile(d)} ELSE {}) \cup
    (IF Len(d.sizes) > 0 THEN {RemoveFile(d)} ELSE {})

ChangeDirectory ==
    /\ phase = "open"
    /\ _series # None
    /\ changes < MaxChanges
    /\ directory' \in ChangedDirectories(directory)
    /\ changes' = changes + 1
    /\ ret' = Outcome("none", None, "ok", None)
    /\ UNCHANGED <<phase, source, mode, _data, _info, _series, discoveries,
                   firstCatalog, openLog, closes>>

Next == Open \/ Length \/ Data \/ Meta \/ Series \/ Close \/ ChangeDirectory

Spec == Init /\ [][Next]_vars


(***************************************************************************)
(* Vocabulary of the claims.                                               *)
(***************************************************************************)
\* The spec's error kinds, as the Python exceptions the reader raises.
BoundsError == {"IndexError"}
ConfigurationError == {"RuntimeError", "ValueError"}

\* The query op (length, data or meta) was the last call.
Called(op) == phase = "open" /\ ret.op = op
\* It was, and it returned a value.
Returned(op) == Called(op) /\ ret.kind = "ok"

\* What length would return now (the reader's state after a query is the
\* state the next query finds).
LengthNow == _get_length(Self, mode, directory)
\* What data(i) would do now.
DataNow(i) == _get_data(Self, mode, directory, i)

\* The loaded buffer is a stack of at least two slices.
MultiSlice(data) == data.ndim = 3 /\ data.n >= 2

\* Slice i of a 3-D buffer, 0 <= i < n.
SliceOf(data, i) == [kind |-> "slice", file |-> data.file, idx |-> i]

\* The file at position i (from 0) of the series concatenated in catalog
\* order, found by walking the series sizes.
RECURSIVE FileAt(_, _, _)
FileAt(sizes, j, i) ==
    IF i < sizes[j] THEN <<j, i + 1>> ELSE FileAt(sizes, j + 1, i - sizes[j])

(***************************************************************************)
(* C1                                                                      *)
(***************************************************************************)
\* C1: between open and close the discovery routine is called at most once,
\* the catalog the reader holds is the result of that first call, and a
\* later access (a read of the property series, or a length in mode 'V',
\* which always reads the catalog) is answered from that first result,
\* whatever the directory has become.
C1_DiscoveredAtMostOnce ==
    /\ phase # "closed" => discoveries <= 1
    /\ phase = "open" /\ discoveries = 1 => _series = firstCatalog
    /\ phase = "open" /\ _series # None => discoveries = 1
    /\ Called("series") => ret.kind = "ok" /\ ret.value = firstCatalog
    /\ Returned("length") /\ mode = "V"
        => ret.value = IntV(Len(firstCatalog.sizes))

\* A catalog access after the directory changed: length in mode 'V'
\* answered from the cached catalog, which the directory no longer matches.
C1_Witness ==
    /\ Returned("length") /\ mode = "V"
    /\ changes > 0
    /\ directory # firstCatalog
    /\ Len(directory.sizes) # Len(firstCatalog.sizes)

(***************************************************************************)
(* C2                                                                      *)
(***************************************************************************)
\* C2: in each of the four modes data(i) returns a (buffer, meta data) pair
\* if and only if 0 <= i < length, and raises BoundsError otherwise,
\* negative i included.
C2_DataIffInRange ==
    Called("data") /\ mode \in Modes /\ LengthNow.kind = "ok" =>
        IF 0 <= ret.index.v /\ ret.index.v < LengthNow.value.v
        THEN ret.kind = "ok" /\ ret.value.kind = "pair"
        ELSE ret.kind \in BoundsError

(***************************************************************************)
(* C3                                                                      *)
(***************************************************************************)
\* C3: metadata(i) with an index resolves it as data(i) does: it raises
\* BoundsError exactly when data(i) does, and otherwise returns the meta
\* data of the pair data(i) returns.
C3_MetaMirrorsData ==
    Called("meta") /\ mode \in Modes /\ ret.index # None =>
        LET d == DataNow(ret.index.v) IN
        /\ ret.kind \in BoundsError <=> d.kind \in BoundsError
        /\ d.kind = "ok" => ret.kind = "ok" /\ ret.value = d.value.meta

(***************************************************************************)
(* C4                                                                      *)
(***************************************************************************)
\* The outcome of length and data in mode 'i' on a loaded stack of N
\* slices: length is N, data(i) is slice i with the file's meta data for
\* 0 <= i < N, data(N) raises BoundsError.
SingleImageStack ==
    /\ Called("length") => ret.kind = "ok" /\ ret.value = IntV(_data.n)
    /\ Called("data") /\ 0 <= ret.index.v /\ ret.index.v < _data.n
        => ret.kind = "ok" /\ ret.value = Pair(SliceOf(_data, ret.index.v), _info)
    /\ Called("data") /\ ret.index.v = _data.n => ret.kind \in BoundsError

\* C4 as claimed: for every 3-D buffer of N >= 1 slices.
C4_Original ==
    mode = "i" /\ _data # None /\ _data.ndim = 3 => SingleImageStack

\* C4: in mode 'i' on a 3-D buffer of N >= 2 slices, length is N, data(i)
\* is slice i with the file's meta data for 0 <= i < N and data(N) raises
\* BoundsError; on a 3-D buffer of one slice length is 1 and data(0) is the
\* whole 3-D buffer, not its slice.
C4_SingleImageStack ==
    /\ mode = "i" /\ _data # None /\ MultiSlice(_data) => SingleImageStack
    /\ mode = "i" /\ _data # None /\ _data.ndim = 3 /\ _data.n = 1 =>
        /\ Called("length") => ret.kind = "ok" /\ ret.value = IntV(1)
        /\ Called("data") /\ ret.index.v = 0
            => ret.kind = "ok" /\ ret.value = Pair(_data, _info)
        /\ Called("data") /\ ret.index.v = 1 => ret.kind \in BoundsError

\* data(1) returned the second slice of a file opened in mode 'i'.
C4_Witness ==
    /\ Returned("data") /\ mode = "i" /\ source = "file"
    /\ MultiSlice(_data) /\ ret.index.v = _data.n - 1
    /\ ret.value.buffer = SliceOf(_data, _data.n - 1)

(***************************************************************************)
(* C5                                                                      *)
(***************************************************************************)
\* The reader was opened on a directory, holds its catalog of k >= 1
\* series and has loaded its first file.
DirectoryResolved ==
    /\ source = "dir" /\ phase = "open"
    /\ _series # None /\ Len(_series.sizes) >= 1 /\ _data # None

\* The outcome of length and data in mode 'I' over the catalog: length is
\* the number of files, data(i) is the buffer and meta data of the i-th
\* file of the series concatenated in catalog order, data(length) raises
\* BoundsError.
MultiImageCatalog ==
    LET total == SumSizes(_series.sizes) IN
    /\ Called("length") => ret.kind = "ok" /\ ret.value = IntV(total)
    /\ Called("data") /\ 0 <= ret.index.v /\ ret.index.v < total =>
        LET f == FileAt(_series.sizes, 1, ret.index.v) IN
        /\ ret.kind = "ok"
        /\ ret.value = Pair(ItemArray(_series, f[1], f[2]),
                            ItemInfo(_series, f[1], f[2]))
    /\ Called("data") /\ ret.index.v = total => ret.kind \in BoundsError

\* C5 as claimed: for every directory and catalog.
C5_Original ==
    mode = "I" /\ DirectoryResolved => MultiImageCatalog

\* C5: in mode 'I' over a directory whose catalog has series of sizes
\* s_1..s_k, k >= 1: data(i) is the i-th file of the series concatenated in
\* catalog order for 1 <= i < s_1+...+s_k, and data(s_1+...+s_k) raises
\* BoundsError; length is s_1+...+s_k and data(0) is the first file when
\* the first file is not a stack of two or more slices; when it is a stack
\* of N >= 2 slices, length is N and data(0) is its slice 0.
C5_MultiImageCatalog ==
    /\ mode = "I" /\ DirectoryResolved /\ ~MultiSlice(_data) => MultiImageCatalog
    /\ mode = "I" /\ DirectoryResolved /\ Called("data") /\ ret.index.v # 0
        => MultiImageCatalog
    /\ mode = "I" /\ DirectoryResolved /\ MultiSlice(_data) =>
        /\ Called("length") => ret.kind = "ok" /\ ret.value = IntV(_data.n)
        /\ Called("data") /\ ret.index.v = 0
            => ret.kind = "ok" /\ ret.value = Pair(SliceOf(_data, 0), _info)

\* data(i) returned the first file of the second series.
C5_Witness ==
    /\ Returned("data") /\ mode = "I" /\ DirectoryResolved /\ ~MultiSlice(_data)
    /\ Len(_series.sizes) >= 2 /\ ret.index.v = _series.sizes[1]
    /\ ret.value.buffer.file = <<2, 1>>

(***************************************************************************)
(* C6                                                                      *)
(***************************************************************************)
\* The outcome of length and data in modes 'v' and 'V' over the catalog:
\* length is the number of series, data(j) the volume and the meta data of
\* series j.
VolumeCatalog ==
    LET k == Len(_series.sizes) IN
    /\ Called("length") => ret.kind = "ok" /\ ret.value = IntV(k)
    /\ Called("data") /\ 0 <= ret.index.v /\ ret.index.v < k =>
        /\ ret.kind = "ok"
        /\ ret.value = Pair(SeriesVolume(_series, ret.index.v + 1),
                            SeriesInfo(_series, ret.index.v + 1))

\* C6 as claimed: for every directory and catalog.
C6_Original ==
    mode \in {"v", "V"} /\ DirectoryResolved => VolumeCatalog

\* C6: in modes 'v' and 'V' over a directory whose catalog has k >= 1
\* series: data(j) is the volume of series j with its meta data for
\* 1 <= j < k, and length is k in mode 'V'; length is k in mode 'v' and
\* data(0) is the volume of series 0 when the first file is not a stack of
\* two or more slices; when it is, length is 1 in mode 'v' and data(0) is
\* the buffer of the first file with that file's meta data.
C6_VolumeCatalog ==
    /\ mode \in {"v", "V"} /\ DirectoryResolved /\ ~MultiSlice(_data)
        => VolumeCatalog
    /\ mode \in {"v", "V"} /\ DirectoryResolved /\ Called("data")
            /\ ret.index.v # 0
        => VolumeCatalog
    /\ mode = "V" /\ DirectoryResolved /\ Called("length") => VolumeCatalog
    /\ mode \in {"v", "V"} /\ DirectoryResolved /\ MultiSlice(_data) =>
        /\ Called("length") /\ mode = "v" => ret.kind = "ok" /\ ret.value = IntV(1)
        /\ Called("data") /\ ret.index.v = 0
            => ret.kind = "ok" /\ ret.value = Pair(_data, _info)

\* data(1) returned the volume of the second series.
C6_Witness ==
    /\ Returned("data") /\ mode = "v" /\ DirectoryResolved
    /\ ~MultiSlice(_data) /\ ret.index.v = 1
    /\ ret.value.buffer = SeriesVolume(_series, 2)

(***************************************************************************)
(* C7                                                                      *)
(***************************************************************************)
\* C7 as claimed: with an unrecognized mode length and data always raise
\* ConfigurationError.
C7_Original ==
    mode \notin Modes /\ (Called("length") \/ Called("data"))
        => ret.kind \in ConfigurationError

\* C7: with an unrecognized mode length and data never return a value:
\* they raise ConfigurationError whenever data is loaded or can be
\* promoted; on a directory whose catalog is empty the promotion fails
\* first and they raise BoundsError.
C7_UnrecognizedMode ==
    mode \notin Modes /\ (Called("length") \/ Called("data")) =>
        /\ ret.kind # "ok"
        /\ _data # None => ret.kind \in ConfigurationError
        /\ _data = None =>
            /\ ret.kind \in BoundsError
            /\ source = "dir" /\ _series # None /\ _series.sizes = <<>>

\* length raised RuntimeError after promoting the first file of a
\* directory.
C7_Witness ==
    /\ Called("length") /\ mode = "?" /\ source = "dir"
    /\ _data # None /\ ret.kind = "RuntimeError"

(***************************************************************************)
(* C8                                                                      *)
(***************************************************************************)
\* open() parsed the file of the request and the parse failed.
FirstParseFailed ==
    /\ ret.op = "open" /\ source = "file"
    /\ Len(openLog) >= 1 /\ openLog[1].out # "ok"
\* The exception the first parse raised.
OriginalFailure == ParseFailure(openLog[1].out, "parse1")
\* The n-th external call of open() was call, answering out.
Answered(n, call, out) ==
    Len(openLog) >= n /\ openLog[n].call = call /\ openLog[n].out = out
\* The calls of that name open() made.
CallsOf(call) == {n \in 1..Len(openLog) : openLog[n].call = call}

\* C8: when the parse failure names JPEG and no tool is found, or the tool
\* is found and its invocation fails, open() raises the original parse
\* failure; a parse failure of any other kind is raised by open() with no
\* tool located or invoked.
C8_OriginalFailureRaised ==
    FirstParseFailed =>
        /\ openLog[1].out = "CompressedJPEG"
                /\ (\/ Answered(2, "get_dcmdjpeg_exe", "none")
                    \/ Answered(3, "check_call", "CalledProcessError"))
            => phase = "failed" /\ ret.kind = "raise" /\ ret.value = OriginalFailure
        /\ openLog[1].out # "CompressedJPEG" =>
            /\ phase = "failed" /\ ret.kind = "raise" /\ ret.value = OriginalFailure
            /\ CallsOf("get_dcmdjpeg_exe") = {} /\ CallsOf("check_call") = {}

\* The tool was found, its invocation failed, and open() raised the
\* CompressedDicom of the first parse.
C8_Witness ==
    /\ FirstParseFailed /\ openLog[1].out = "CompressedJPEG"
    /\ Answered(2, "get_dcmdjpeg_exe", "found")
    /\ Answered(3, "check_call", "CalledProcessError")
    /\ phase = "failed" /\ ret.value.type = "CompressedDicom"

(***************************************************************************)
(* C9                                                                      *)
(***************************************************************************)
\* open() recovered a JPEG-compressed file: the tool ran and the
\* decompressed file parsed.
Recovered ==
    /\ phase = "open" /\ source = "file"
    /\ Answered(1, "SimpleDicomReader", "CompressedJPEG")
    /\ Answered(3, "check_call", "ok")
    /\ Answered(4, "SimpleDicomReader", "ok")
\* A pair made of the content of the decompressed file: its buffer or a
\* slice of it, with its meta data.
FromRawFile(pair) ==
    /\ pair.kind = "pair"
    /\ pair.buffer.kind \in {"array", "slice"}
    /\ pair.buffer.file = RawFile
    /\ pair.meta = Info(RawFile)

\* C9 as claimed: after a recovery data(0) returns the decompressed content
\* in every mode, whatever the shape of the buffer.
C9_Original ==
    Recovered /\ mode \in Modes /\ Called("data") /\ ret.index.v = 0
        => ret.kind = "ok" /\ FromRawFile(ret.value)

\* C9: after a recovery the loaded data is the decompressed file's, and
\* data(0) returns it in mode 'i' (slice 0 of a stack of two or more
\* slices, else the whole buffer) and, when the buffer is a stack of two or
\* more slices, in mode 'I' (slice 0) and in modes 'v' and 'V' (the whole
\* buffer); otherwise data(0) in modes 'I', 'v' and 'V' is answered from
\* the series catalog: its first file, or the volume of its first series,
\* or BoundsError when the catalog is empty.
C9_RecoveredData ==
    Recovered =>
        /\ _data.file = RawFile /\ _info = Info(RawFile)
        /\ Called("data") /\ ret.index.v = 0 /\ mode \in Modes =>
            IF MultiSlice(_data)
            THEN /\ ret.kind = "ok" /\ FromRawFile(ret.value)
                 /\ ret.value.buffer =
                        IF mode \in {"i", "I"} THEN SliceOf(_data, 0) ELSE _data
            ELSE IF mode = "i"
            THEN ret.kind = "ok" /\ ret.value = Pair(_data, _info)
            ELSE IF _series.sizes = <<>> THEN ret.kind \in BoundsError
            ELSE /\ ret.kind = "ok"
                 /\ ret.value =
                        IF mode = "I"
                        THEN Pair(ItemArray(_series, 1, 1), ItemInfo(_series, 1, 1))
                        ELSE Pair(SeriesVolume(_series, 1), SeriesInfo(_series, 1))

\* data(0) in mode 'v' returned the decompressed stack.
C9_Witness ==
    /\ Recovered /\ Returned("data") /\ ret.index.v = 0 /\ mode = "v"
    /\ MultiSlice(_data) /\ ret.value.buffer = _data /\ _data.file = RawFile

(***************************************************************************)
(* C10                                                                     *)
(***************************************************************************)
\* C10: in each of the four modes length returns a value >= 1 when the
\* reader was opened on a file, or on a directory whose catalog holds at
\* least one file.
C10_LengthAtLeastOne ==
    Called("length") /\ mode \in Modes
        /\ (source = "file" \/ (_series # None /\ _series.sizes # <<>>))
    => ret.kind = "ok" /\ ret.value.v >= 1

(***************************************************************************)
(* C11                                                                     *)
(***************************************************************************)
\* The reader's fields as a handler leaves them when it changes none and
\* makes no discovery.
Untouched(r) == r.self = Self

\* C11: length called again right after length returns the same value, and
\* data(i) called again right after data(i) has the same outcome (the same
\* pair, or the same exception); the second call makes no discovery and
\* leaves _data, _info and _series as the first call left them.
C11_Idempotent ==
    /\ Called("length") =>
        /\ LengthNow.kind = ret.kind /\ LengthNow.value = ret.value
        /\ Untouched(LengthNow)
    /\ Called("data") =>
        /\ DataNow(ret.index.v).kind = ret.kind
        /\ DataNow(ret.index.v).value = ret.value
        /\ Untouched(DataNow(ret.index.v))

\* The first data(i) on a directory discovered the catalog, promoted its
\* first file and returned a file of the catalog; the directory has not
\* changed since.
C11_Witness ==
    /\ Returned("data") /\ source = "dir" /\ mode = "I"
    /\ discoveries = 1 /\ changes = 0 /\ ret.index.v = 1
    /\ ret.value.buffer.file = <<1, 2>>

(***************************************************************************)
(* C12                                                                     *)
(***************************************************************************)
\* C12: close leaves the loaded data, its meta data and the series
\* catalog all absent, whatever the reader held before; a second close
\* succeeds and leaves them absent.
C12_CloseReleases ==
    /\ phase = "closed" <=> closes >= 1
    /\ phase = "closed" => _data = None /\ _info = None
    /\ ret.op = "close" =>
        /\ phase = "closed"
        /\ _data = None /\ _info = None /\ _series = None
        /\ ret = Outcome("close", None, "ok", None)

\* A reader opened on a directory, whose catalog was discovered and whose
\* first file was promoted, closed twice.
C12_Witness ==
    /\ phase = "closed" /\ closes = 2 /\ source = "dir" /\ discoveries = 1
    /\ firstCatalog.sizes # <<>> /\ ret.op = "close"
    /\ _data = None /\ _series = None

(***************************************************************************)
(* C13                                                                     *)
(***************************************************************************)
\* The mode-dispatch table of length: stack tells which column applies, n
\* is the number of slices of the loaded buffer, cat the series catalog.
LengthTable(m, stack, n, cat) ==
    IF m = "i" THEN (IF stack THEN n ELSE 1)
    ELSE IF m = "I" THEN (IF stack THEN n ELSE SumSizes(cat.sizes))
    ELSE IF m = "v" THEN (IF stack THEN 1 ELSE Len(cat.sizes))
    ELSE Len(cat.sizes)

\* C13 as claimed: the first column applies to every 3-D buffer.
C13_Original ==
    Called("length") /\ mode \in Modes /\ _data # None =>
        /\ ret.kind = "ok"
        /\ mode = "i" \/ (_data.ndim = 3 /\ mode # "V") \/ _series # None
        /\ ret.value = IntV(LengthTable(mode, _data.ndim = 3, _data.n, _series))

\* C13: length equals the mode-dispatch table, the first column applying
\* to the 3-D buffers of N >= 2 slices: 'i' -> N, else 1; 'I' -> N, else
\* the number of files of all series; 'v' -> 1, else the number of series;
\* 'V' -> the number of series in both columns.  A 3-D buffer of one slice
\* is counted like a 2-D buffer: the number of slices, not the
\* dimensionality, selects the column.  The catalog is resolved whenever
\* the table reads it.
C13_LengthTable ==
    Called("length") /\ mode \in Modes /\ _data # None =>
        /\ ret.kind = "ok"
        /\ mode = "i" \/ (MultiSlice(_data) /\ mode # "V") \/ _series # None
        /\ ret.value = IntV(LengthTable(mode, MultiSlice(_data), _data.n, _series))

\* length in mode 'I' on a file holding a 3-D buffer of one slice was read
\* from a catalog of several files.
C13_Witness ==
    /\ Returned("length") /\ mode = "I" /\ source = "file"
    /\ _data.ndim = 3 /\ _data.n = 1
    /\ ret.value.v = SumSizes(_series.sizes) /\ ret.value.v >= 2

(***************************************************************************)
(* C14                                                                     *)
(***************************************************************************)
\* open() on a directory parsed nothing and discovered nothing, and left
\* the data absent and the catalog unresolved; a length, data or metadata
\* call finds or makes the one discovery.
LazyDirectoryOpen ==
    source = "dir" =>
        /\ openLog = <<>>
        /\ ret.op = "open" =>
            /\ _data = None /\ _series = None /\ discoveries = 0
            /\ _info = EmptyInfo
        /\ phase \in {"new", "failed"} => discoveries = 0
        /\ Called("length") \/ Called("data") \/ Called("meta") =>
            discoveries = 1 /\ _series = firstCatalog
\* A step of an open reader of a directory that runs the discovery.
DirectoryDiscoveryStep ==
    /\ source = "dir" /\ phase = "open" /\ phase' = "open"
    /\ discoveries' > discoveries

\* C14 as stated: open() on a directory is lazy, and the discovery is made
\* by the first length, data or metadata call and by nothing else.
C14_Original ==
    [][/\ LazyDirectoryOpen'
       /\ DirectoryDiscoveryStep =>
              discoveries = 0 /\ ret'.op \in {"length", "data", "meta"}]_vars

\* C14: open() on a directory parses nothing and discovers nothing: it
\* leaves the data absent and the catalog unresolved; the discovery is
\* made by the first access to the catalog after open, which is the first
\* length, data or metadata call or a read of the property series,
\* whichever comes first.
C14_LazyDirectoryOpen ==
    [][/\ LazyDirectoryOpen'
       /\ DirectoryDiscoveryStep =>
              /\ discoveries = 0 /\ _series = None
              /\ ret'.op \in {"length", "data", "meta", "series"}]_vars

\* A directory was opened and the first access to its catalog was a read
\* of the property series: the catalog is resolved and no data is loaded.
C14_Witness ==
    /\ source = "dir" /\ phase = "open" /\ ret.op = "series"
    /\ openLog = <<>> /\ discoveries = 1 /\ changes = 0
    /\ ret.value = directory /\ directory.sizes # <<>>
    /\ _data = None /\ _info = EmptyInfo /\ _series = directory

(***************************************************************************)
(* C15                                                                     *)
(***************************************************************************)
\* C15: on a reader opened on a directory, once any of length, data or
\* metadata was called, in any mode and whatever the call and its index,
\* the catalog held is the one of the first discovery and the loaded data
\* and meta data are those of the first file of its first series; with an
\* empty catalog nothing is loaded and every call raises BoundsError.  The
\* state later calls compute from does not depend on which call came
\* first.
C15_PromotedOnFirstQuery ==
    source = "dir" /\ phase = "open" =>
        /\ _data # None =>
            /\ discoveries = 1 /\ _series = firstCatalog
            /\ _data = ItemArray(firstCatalog, 1, 1)
            /\ _info = ItemInfo(firstCatalog, 1, 1)
        /\ ret.op \in {"length", "data", "meta"} =>
            /\ discoveries = 1 /\ _series = firstCatalog
            /\ IF firstCatalog.sizes = <<>>
               THEN /\ _data = None /\ _info = EmptyInfo
                    /\ ret.kind \in BoundsError
               ELSE _data # None

\* metadata without index, in the unrecognized mode, promoted the first
\* file of the directory.
C15_Witness ==
    /\ source = "dir" /\ Returned("meta") /\ ret.index = None /\ mode = "?"
    /\ _data = ItemArray(firstCatalog, 1, 1) /\ ret.value = Info(<<1, 1>>)

(***************************************************************************)
(* C16                                                                     *)
(***************************************************************************)
\* C16: one open invokes the decompression tool at most once and the
\* parser at most twice, the second time only after the tool succeeded;
\* when the re-parse fails, whatever its failure (a JPEG-compressed one
\* included), its exception is raised and open made no further call.
C16_RecoveryOneShot ==
    /\ Cardinality(CallsOf("check_call")) <= 1
    /\ Cardinality(CallsOf("SimpleDicomReader")) <= 2
    /\ Cardinality(CallsOf("SimpleDicomReader")) = 2 =>
           /\ Len(openLog) = 4
           /\ Answered(3, "check_call", "ok")
           /\ openLog[4].call = "SimpleDicomReader"
    /\ \A x \in ParseOutcomes \ {"ok"} :
           Answered(4, "SimpleDicomReader", x) =>
               /\ phase = "failed"
               /\ ret.kind = "raise" /\ ret.value = ParseFailure(x, "parse2")

\* The re-parse of the decompressed file failed as JPEG-compressed again.
C16_Witness ==
    /\ Answered(4, "SimpleDicomReader", "CompressedJPEG")
    /\ Answered(3, "check_call", "ok")
    /\ phase = "failed" /\ ret.value = ParseFailure("CompressedJPEG", "parse2")

(***************************************************************************)
(* C17                                                                     *)
(***************************************************************************)
\* A step of length() in SingleImage mode that starts with the catalog
\* unresolved.
SingleImageLengthStep ==
    /\ phase = "open" /\ mode = "i" /\ _series = None
    /\ phase' = "open" /\ ret'.op = "length"

\* C17 as stated: a length() in SingleImage mode leaves an unresolved
\* catalog unresolved, for every source kind and whether or not data is
\* loaded.
C17_Original == [][SingleImageLengthStep => _series' = None]_vars

\* C17: with data loaded, a length() in SingleImage mode leaves an
\* unresolved catalog unresolved and runs no discovery, and answers the
\* number of slices of the loaded buffer; with no data loaded (a directory
\* before its first query) the promotion resolves the catalog first.
C17_SingleImageLength ==
    [][SingleImageLengthStep =>
          IF _data # None
          THEN /\ _series' = None /\ discoveries' = discoveries
               /\ ret'.kind = "ok" /\ ret'.value = IntV(nslices(_data))
          ELSE /\ source = "dir"
               /\ _series' = firstCatalog' /\ discoveries' = 1]_vars

\* length() was answered in SingleImage mode on a file whose catalog is
\* unresolved.
C17_Witness ==
    /\ Returned("length") /\ mode = "i" /\ source = "file"
    /\ _series = None /\ discoveries = 0 /\ ret.value = IntV(MaxSlices)

(***************************************************************************)
(* C18                                                                     *)
(***************************************************************************)
\* A step of get_meta_data() called without index.
MetaNoIndexStep ==
    /\ phase = "open" /\ phase' = "open"
    /\ ret'.op = "meta" /\ ret'.index = None

\* C18: in every mode, the unrecognized one included, get_meta_data()
\* without index returns the meta data of the loaded data and nothing
\* else happens: with data loaded it returns _info and leaves the data,
\* the catalog and the number of discoveries as they were; on a directory
\* with no data loaded yet it first promotes the first file of the first
\* series and returns the meta data of that file (an empty catalog has no
\* first file: the promotion raises BoundsError).
C18_MetaNoIndex ==
    [][MetaNoIndexStep =>
          IF _data # None
          THEN /\ ret'.kind = "ok" /\ ret'.value = _info
               /\ ret'.value = (IF source = "file" THEN Info(_data.file)
                                ELSE ItemInfo(firstCatalog, 1, 1))
               /\ UNCHANGED <<_data, _info, _series, discoveries>>
          ELSE /\ source = "dir" /\ _series' = firstCatalog'
               /\ IF firstCatalog'.sizes = <<>>
                  THEN ret'.kind \in BoundsError /\ _data' = None
                  ELSE /\ ret'.kind = "ok"
                       /\ ret'.value = ItemInfo(firstCatalog', 1, 1)
                       /\ _info' = ret'.value
                       /\ _data' = ItemArray(firstCatalog', 1, 1)]_vars

\* get_meta_data() without index answered in the unrecognized mode, on a
\* file whose catalog is unresolved.
C18_Witness ==
    /\ Returned("meta") /\ ret.index = None /\ mode = "?"
    /\ source = "file" /\ _series = None /\ ret.value = Info(_data.file)

(***************************************************************************)
(* C19                                                                     *)
(***************************************************************************)
\* A step of get_length(), get_data() or get_meta_data(), whatever its
\* outcome.
QueryStep ==
    /\ phase = "open" /\ phase' = "open"
    /\ ret'.op \in {"length", "data", "meta"}

\* C19: a query, returning or raising, leaves loaded data and its meta
\* data as they are once present, and leaves a resolved catalog as it is;
\* the only step that changes loaded data is close(), which clears it.
C19_QueriesKeepLoaded ==
    [][/\ QueryStep /\ _data # None => _data' = _data /\ _info' = _info
       /\ QueryStep /\ _series # None =>
              _series' = _series /\ discoveries' = discoveries
       /\ _data # None /\ _data' # _data =>
              phase' = "closed" /\ _data' = None /\ ret'.op = "close"]_vars

\* A query failed on a directory whose files changed after discovery,
\* with data loaded and the catalog resolved.
C19_Witness ==
    /\ phase = "open" /\ source = "dir" /\ changes = 1
    /\ ret.op \in {"length", "data", "meta"} /\ ret.kind \in BoundsError
    /\ _data = ItemArray(firstCatalog, 1, 1) /\ _series = firstCatalog
    /\ directory # firstCatalog

=============================================================================
